---- MODULE Spec2Model ----
(***************************************************************************)
(* FluxVoice: the recording session controller (useAudioRecording), the    *)
(* zustand store it writes (appStore) and the hotkey coordinator           *)
(* (FloatingWindow).  One action per handler or continuation: the code     *)
(* between two awaits runs as one step of the single-threaded event loop.  *)
(***************************************************************************)
EXTENDS Integers, Sequences, FiniteSets, TLC

\* ---------------------------------------------------------------- bounds
StartTime == 1000       \* Date.now() at mount (far from lastActionTime = 0)
ClockStep == 150        \* granularity of the simulated clock, in ms
MaxTime == 1450         \* no ClockStep advance goes beyond this time
MaxOps == 2             \* lock acquisitions (start or stop) explored
MaxPolls == 1           \* get_audio_level requests in flight
MaxCalls == 4           \* history calls, reloads and storage faults, one window
MaxSyncCalls == 1       \* the same with two windows open
HistMaxTime == 1150     \* no clock advance beyond this time while the history is explored

\* ------------------------------------------------------ program constants
DEBOUNCE_MS == 300
ERROR_CLEAR_MS == 3000
MS_PER_SECOND == 1000
Null == -1              \* null of a number | null field
NoId == 0               \* null of an interval id (ids are truthy, so >= 1)
NoError == "null"       \* null of the error field

\* ------------------------------------------------------------ input sets
Audios == {<<7>>, <<8>>}
Texts == {<<>>, <<" ">>, <<"a">>}
Results == {[original |-> <<"a">>, polished |-> "null", final_text |-> t] : t \in Texts}
Levels == {0, 1}
NoResult == [original |-> <<>>, polished |-> "null", final_text |-> <<>>]

VARIABLES
    now,                    \* Date.now()
    isOperationInProgress,  \* module-level lock
    intervalId,             \* useState: audio-level interval id (NoId = null)
    durationIntervalId,     \* useState: duration interval id
    cb,                     \* values captured by the callbacks of the last render
    liveIntervals,          \* window.setInterval timers not yet cleared
    nextId,                 \* next id window.setInterval returns
    recordingState, audioLevel, error, uploadSize,
    recordingStartTime, recordingDuration, transcription,
    transcriptionHistory,   \* store fields
    calls,                  \* startRecording/stopRecording calls suspended at an await
    errTimers,              \* deadlines of pending setTimeout(() => setError(null))
    levelPolls,             \* get_audio_level requests in flight
    ops,                    \* number of start/stop calls that took the lock
    capture,                \* the capture layer as last asked: idle, starting, capturing
    recordingStateRef, isProcessingHotkey, pendingRelease, lastActionTime,
    \* ---- useTranscriptionHistory, one instance per window
    hist,                   \* per window: the store's transcriptionHistory
    isInitialized,          \* per window: the isInitialized ref (hook mounted)
    localStorage,           \* value under HISTORY_STORAGE_KEY (shared by the windows)
    audioDB,                \* IndexedDB object store: set of {timestamp, audioData}
    dbPromise,              \* per window: the memoized openDB() promise
    events,                 \* per window: queued 'storage' events (their newValue)
    tasks,                  \* async functions of the hook suspended at an await
    budget                  \* history calls, reloads and faults left to explore

storeVars == <<recordingState, audioLevel, error, uploadSize, recordingStartTime,
               recordingDuration, transcription, transcriptionHistory>>
timerVars == <<intervalId, durationIntervalId, liveIntervals, nextId>>
ctlVars == <<isOperationInProgress, timerVars, storeVars, calls, errTimers, ops, capture>>
hotkeyVars == <<recordingStateRef, isProcessingHotkey, pendingRelease, lastActionTime>>
histVars == <<hist, isInitialized, localStorage, audioDB, dbPromise, events, tasks, budget>>
vars == <<now, ctlVars, cb, levelPolls, hotkeyVars, histVars>>

\* String.prototype.trim on a sequence of characters
RECURSIVE TrimLeft(_)
TrimLeft(s) == IF s # <<>> /\ Head(s) = " " THEN TrimLeft(Tail(s)) ELSE s

RECURSIVE TrimRight(_)
TrimRight(s) ==
    IF s # <<>> /\ s[Len(s)] = " " THEN TrimRight(SubSeq(s, 1, Len(s) - 1)) ELSE s

Trim(s) == TrimRight(TrimLeft(s))

\* the closure values of the callbacks created by the current render
Closure == [intervalId |-> intervalId, durationIntervalId |-> durationIntervalId,
            recordingDuration |-> recordingDuration]

Call(op, pc, hk, dur) ==
    [op |-> op, pc |-> pc, hotkey |-> hk, startTime |-> IF op = "start" THEN now ELSE Null,
     capturedDuration |-> dur, audio |-> <<>>, result |-> NoResult, timestamp |-> Null]

\* useAppStore's initial state, fresh refs and hook state of the recording window
CtlInit ==
    /\ now = StartTime
    /\ isOperationInProgress = FALSE
    /\ intervalId = NoId
    /\ durationIntervalId = NoId
    /\ cb = [intervalId |-> NoId, durationIntervalId |-> NoId, recordingDuration |-> 0]
    /\ liveIntervals = {}
    /\ nextId = 1
    /\ recordingState = "idle"
    /\ audioLevel = 0
    /\ error = NoError
    /\ uploadSize = Null
    /\ recordingStartTime = Null
    /\ recordingDuration = 0
    /\ transcription = <<>>
    /\ transcriptionHistory = <<>>
    /\ calls = <<>>
    /\ errTimers = {}
    /\ levelPolls = 0
    /\ ops = 0
    /\ capture = "idle"
    /\ recordingStateRef = "idle"
    /\ isProcessingHotkey = FALSE
    /\ pendingRelease = FALSE
    /\ lastActionTime = 0

\* ------------------------------------------- history persistence values
MAX_HISTORY_ITEMS == 20
Windows == {1, 2}
HistAudios == Audios \cup {<<Null>>}    \* audioData of an add, one window
SyncAudios == {<<7>>, <<Null>>}         \* audioData of an add, two windows
Undefined == <<Null>>                                \* audioData: undefined (no byte is -1)
NullLS == [kind |-> "null", items |-> <<>>]          \* getItem(...) === null
Malformed == [kind |-> "malformed", items |-> <<>>]  \* a value JSON.parse throws on

\* ({ audioData, ...rest }) => rest
StripAudio(item) ==
    [original |-> item.original, polished |-> item.polished,
     finalText |-> item.finalText, timestamp |-> item.timestamp]

\* JSON.stringify(transcriptionHistory), the audio bytes included
StringifyWithAudio(list) == [kind |-> "json", items |-> list]

\* JSON.stringify(transcriptionHistory.map(({ audioData, ...rest }) => rest))
Stringify(list) ==
    [kind |-> "json",
     items |-> IF list = <<>> THEN <<>> ELSE [i \in 1..Len(list) |-> StripAudio(list[i])]]

\* JSON.parse(stored) with the slice left out
ParseNoSlice(value) == value.items

\* JSON.parse(stored) followed by items.slice(0, 20)
ParseSlice(value) ==
    SubSeq(value.items, 1, IF Len(value.items) < MAX_HISTORY_ITEMS
                           THEN Len(value.items) ELSE MAX_HISTORY_ITEMS)

\* store.get(timestamp): result ? result.audioData : null, then audioData ?? undefined
GetAudioData(db, timestamp) ==
    IF \E r \in db : r.timestamp = timestamp
    THEN (CHOOSE r \in db : r.timestamp = timestamp).audioData
    ELSE Undefined

\* store.put({ timestamp, audioData }) on the keyPath 'timestamp'
PutAudioData(db, timestamp, audioData) ==
    {r \in db : r.timestamp # timestamp} \cup {[timestamp |-> timestamp, audioData |-> audioData]}

\* items.map(async (item) => ({ ...item, audioData: (await getAudioData(...)) ?? undefined }));
\* with the database not opened getAudioData logs and returns null
Hydrate(items, db, opened) ==
    IF items = <<>> THEN <<>>
    ELSE [i \in 1..Len(items) |->
            [original |-> items[i].original, polished |-> items[i].polished,
             finalText |-> items[i].finalText, timestamp |-> items[i].timestamp,
             audioData |-> IF opened THEN GetAudioData(db, items[i].timestamp)
                           ELSE Undefined]]

\* 20 persisted items without audio, newest first
RECURSIVE Persisted(_)
Persisted(n) ==
    IF n = 0 THEN <<>>
    ELSE <<[original |-> <<"a">>, polished |-> "null", finalText |-> <<"a">>,
            timestamp |-> n]>> \o Persisted(n - 1)

\* what the key may hold when the first window opens
StoredAtStart == {NullLS, [kind |-> "json", items |-> Persisted(MAX_HISTORY_ITEMS)]}

HistoryInit(stored, calls_) ==
    /\ hist = [w \in Windows |-> <<>>]
    /\ isInitialized = [w \in Windows |-> FALSE]
    /\ localStorage = stored
    /\ audioDB = {}
    /\ dbPromise = [w \in Windows |-> "none"]
    /\ events = [w \in Windows |-> <<>>]
    /\ tasks = <<>>
    /\ budget = calls_

Init == CtlInit /\ HistoryInit(NullLS, 0)

HistInit == CtlInit /\ \E stored \in StoredAtStart : HistoryInit(stored, MaxCalls)

SyncInit == CtlInit /\ \E stored \in StoredAtStart : HistoryInit(stored, MaxSyncCalls)
\* ------------------------------------------------------------- helpers
\* nothing left to render
Flushed == recordingStateRef = recordingState /\ cb = Closure

\* store changes are rendered before the next task: useSyncExternalStore re-renders
\* synchronously, a useState change made in a promise continuation may wait
StoreFlushed == recordingStateRef = recordingState /\ cb.recordingDuration = recordingDuration

Remove(seq, i) == SubSeq(seq, 1, i - 1) \o SubSeq(seq, i + 1, Len(seq))

\* clearInterval + setXxxId(null) for the ids the calling closure holds
ClearIntervals(c) ==
    /\ liveIntervals' = {r \in liveIntervals : r.id \notin {c.intervalId, c.durationIntervalId}}
    /\ intervalId' = IF c.intervalId # NoId THEN NoId ELSE intervalId
    /\ durationIntervalId' = IF c.durationIntervalId # NoId THEN NoId ELSE durationIntervalId

\* store.addToHistory
AddToHistory(h, original, polished, finalText, audioData, timestamp) ==
    <<[original |-> original, polished |-> polished, finalText |-> finalText,
       timestamp |-> timestamp, audioData |-> audioData]>> \o h

\* ------------------------------------------------------ startRecording
\* startRecording without the isOperationInProgress test
StartRecordingNoLock(c, hk) ==
    /\ isOperationInProgress' = TRUE
    /\ ClearIntervals(c)
    /\ error' = NoError
    /\ uploadSize' = Null
    /\ recordingDuration' = 0
    /\ audioLevel' = 0
    /\ recordingStartTime' = now
    /\ recordingState' = "recording"
    /\ calls' = Append(calls, Call("start", "start_recording", hk, 0))
    /\ ops' = ops + 1
    /\ capture' = "starting"
    /\ UNCHANGED <<nextId, transcription, transcriptionHistory, errTimers>>

\* the synchronous part of startRecording, up to await invoke('start_recording')
StartRecording(c, hk) ==
    IF isOperationInProgress
    THEN UNCHANGED ctlVars   \* 'startRecording blocked - operation in progress'
    ELSE /\ isOperationInProgress' = TRUE
         /\ ClearIntervals(c)
         /\ error' = NoError
         /\ uploadSize' = Null
         /\ recordingDuration' = 0
         /\ audioLevel' = 0
         /\ recordingStartTime' = now
         /\ recordingState' = "recording"
         /\ calls' = Append(calls, Call("start", "start_recording", hk, 0))
         /\ ops' = ops + 1
         /\ capture' = "starting"
         /\ UNCHANGED <<nextId, transcription, transcriptionHistory, errTimers>>

\* the continuation without the press listener's finally { isProcessingHotkey = false }
StartRecordingOkKeepsFlag(i) ==
    /\ UNCHANGED histVars
    /\ StoreFlushed
    /\ UNCHANGED <<now, cb, levelPolls, hotkeyVars>>
    /\ calls[i].pc = "start_recording"
    /\ liveIntervals' = liveIntervals \cup
          {[id |-> nextId, kind |-> "level", startTime |-> Null],
           [id |-> nextId + 1, kind |-> "duration", startTime |-> calls[i].startTime]}
    /\ intervalId' = nextId
    /\ durationIntervalId' = nextId + 1
    /\ nextId' = nextId + 2
    /\ isOperationInProgress' = FALSE
    /\ calls' = Remove(calls, i)
    /\ UNCHANGED <<storeVars, errTimers, ops>>
    /\ capture' = "capturing"

\* invoke('start_recording') resolved: both intervals start, finally releases the lock
StartRecordingOk(i) ==
    /\ UNCHANGED histVars
    /\ StoreFlushed
    /\ UNCHANGED <<now, cb, levelPolls, recordingStateRef, pendingRelease, lastActionTime>>
    /\ calls[i].pc = "start_recording"
    /\ liveIntervals' = liveIntervals \cup
          {[id |-> nextId, kind |-> "level", startTime |-> Null],
           [id |-> nextId + 1, kind |-> "duration", startTime |-> calls[i].startTime]}
    /\ intervalId' = nextId
    /\ durationIntervalId' = nextId + 1
    /\ nextId' = nextId + 2
    /\ isOperationInProgress' = FALSE
    /\ calls' = Remove(calls, i)
    /\ isProcessingHotkey' = IF calls[i].hotkey THEN FALSE ELSE isProcessingHotkey
    /\ UNCHANGED <<storeVars, errTimers, ops>>
    /\ capture' = "capturing"

\* the catch block of the earlier variant: setRecordingState('error')
StartRecordingFailToError(i) ==
    /\ UNCHANGED histVars
    /\ StoreFlushed
    /\ UNCHANGED <<now, cb, levelPolls, recordingStateRef, pendingRelease, lastActionTime>>
    /\ calls[i].pc = "start_recording"
    /\ error' = "start_recording failed"
    /\ recordingState' = "error"
    /\ recordingStartTime' = Null
    /\ errTimers' = errTimers \cup {now + ERROR_CLEAR_MS}
    /\ isOperationInProgress' = FALSE
    /\ calls' = Remove(calls, i)
    /\ isProcessingHotkey' = IF calls[i].hotkey THEN FALSE ELSE isProcessingHotkey
    /\ UNCHANGED <<timerVars, audioLevel, uploadSize, recordingDuration, transcription,
                   transcriptionHistory, ops>>
    /\ capture' = "idle"

\* the catch block without setRecordingState('idle')
StartRecordingFailKeepsState(i) ==
    /\ UNCHANGED histVars
    /\ StoreFlushed
    /\ UNCHANGED <<now, cb, levelPolls, recordingStateRef, pendingRelease, lastActionTime>>
    /\ calls[i].pc = "start_recording"
    /\ error' = "start_recording failed"
    /\ recordingStartTime' = Null
    /\ errTimers' = errTimers \cup {now + ERROR_CLEAR_MS}
    /\ isOperationInProgress' = FALSE
    /\ calls' = Remove(calls, i)
    /\ isProcessingHotkey' = IF calls[i].hotkey THEN FALSE ELSE isProcessingHotkey
    /\ UNCHANGED <<timerVars, recordingState, audioLevel, uploadSize, recordingDuration,
                   transcription, transcriptionHistory, ops>>
    /\ capture' = "idle"

\* invoke('start_recording') rejected: the catch block, then finally
StartRecordingFail(i) ==
    /\ UNCHANGED histVars
    /\ StoreFlushed
    /\ UNCHANGED <<now, cb, levelPolls, recordingStateRef, pendingRelease, lastActionTime>>
    /\ calls[i].pc = "start_recording"
    /\ error' = "start_recording failed"
    /\ recordingState' = "idle"
    /\ recordingStartTime' = Null
    /\ errTimers' = errTimers \cup {now + ERROR_CLEAR_MS}
    /\ isOperationInProgress' = FALSE
    /\ calls' = Remove(calls, i)
    /\ isProcessingHotkey' = IF calls[i].hotkey THEN FALSE ELSE isProcessingHotkey
    /\ UNCHANGED <<timerVars, audioLevel, uploadSize, recordingDuration, transcription,
                   transcriptionHistory, ops>>
    /\ capture' = "idle"

\* ------------------------------------------------------- stopRecording
\* the synchronous part of stopRecording, up to await invoke('stop_recording')
StopRecording(c) ==
    IF isOperationInProgress
    THEN UNCHANGED ctlVars   \* 'stopRecording blocked - operation in progress'
    ELSE /\ isOperationInProgress' = TRUE
         /\ ClearIntervals(c)
         /\ recordingState' = "processing"
         /\ recordingStartTime' = Null
         /\ calls' = Append(calls, Call("stop", "stop_recording", FALSE, c.recordingDuration))
         /\ ops' = ops + 1
         /\ capture' = "idle"
         /\ UNCHANGED <<nextId, audioLevel, error, uploadSize, recordingDuration, transcription,
                        transcriptionHistory, errTimers>>

\* step 1 resolved: upload size set, transcription requested
StopRecordingOk(i, a) ==
    /\ UNCHANGED histVars
    /\ StoreFlushed
    /\ UNCHANGED <<now, cb, levelPolls, hotkeyVars>>
    /\ calls[i].pc = "stop_recording"
    /\ uploadSize' = Len(a)
    /\ calls' = [calls EXCEPT ![i].pc = "transcribe_and_insert", ![i].audio = a]
    /\ UNCHANGED <<isOperationInProgress, timerVars, recordingState, audioLevel, error,
                   recordingStartTime, recordingDuration, transcription, transcriptionHistory,
                   errTimers, ops, capture>>

\* the catch block of the earlier variant: setRecordingState('error'), level kept
StopRecordingFailToError(i) ==
    /\ UNCHANGED histVars
    /\ StoreFlushed
    /\ UNCHANGED <<now, cb, levelPolls, hotkeyVars>>
    /\ calls[i].pc = "stop_recording"
    /\ error' = "stop_recording failed"
    /\ recordingState' = "error"
    /\ isOperationInProgress' = FALSE
    /\ errTimers' = errTimers \cup {now + ERROR_CLEAR_MS}
    /\ calls' = Remove(calls, i)
    /\ UNCHANGED <<timerVars, audioLevel, uploadSize, recordingDuration, recordingStartTime,
                   transcription, transcriptionHistory, ops, capture>>

\* the step 1 catch block returning without isOperationInProgress = false
StopRecordingFailKeepsLock(i) ==
    /\ UNCHANGED histVars
    /\ StoreFlushed
    /\ UNCHANGED <<now, cb, levelPolls, hotkeyVars>>
    /\ calls[i].pc = "stop_recording"
    /\ error' = "stop_recording failed"
    /\ recordingState' = "idle"
    /\ audioLevel' = 0
    /\ uploadSize' = Null
    /\ recordingDuration' = 0
    /\ errTimers' = errTimers \cup {now + ERROR_CLEAR_MS}
    /\ calls' = Remove(calls, i)
    /\ UNCHANGED <<isOperationInProgress, timerVars, recordingStartTime, transcription,
                   transcriptionHistory, ops, capture>>

\* step 1 rejected: back to idle, lock released in the catch block, return
StopRecordingFail(i) ==
    /\ UNCHANGED histVars
    /\ StoreFlushed
    /\ UNCHANGED <<now, cb, levelPolls, hotkeyVars>>
    /\ calls[i].pc = "stop_recording"
    /\ error' = "stop_recording failed"
    /\ recordingState' = "idle"
    /\ audioLevel' = 0
    /\ uploadSize' = Null
    /\ recordingDuration' = 0
    /\ isOperationInProgress' = FALSE
    /\ errTimers' = errTimers \cup {now + ERROR_CLEAR_MS}
    /\ calls' = Remove(calls, i)
    /\ UNCHANGED <<timerVars, recordingStartTime, transcription, transcriptionHistory,
                   ops, capture>>

\* the common tail of step 2: setRecordingState('idle') ... finally
StopSettle(i) ==
    /\ recordingState' = "idle"
    /\ audioLevel' = 0
    /\ recordingDuration' = 0
    /\ isOperationInProgress' = FALSE
    /\ calls' = Remove(calls, i)

\* step 2 resolved, the history test without .trim()
TranscribeOkNoTrim(i, r) ==
    /\ UNCHANGED histVars
    /\ StoreFlushed
    /\ UNCHANGED <<now, cb, levelPolls, hotkeyVars>>
    /\ calls[i].pc = "transcribe_and_insert"
    /\ transcription' = r.final_text
    /\ IF r.final_text # <<>>
       THEN /\ transcriptionHistory' = AddToHistory(transcriptionHistory, r.original,
                                          r.polished, r.final_text, calls[i].audio, now)
            /\ calls' = [calls EXCEPT ![i].pc = "save_history_item", ![i].result = r,
                                      ![i].timestamp = now]
            /\ UNCHANGED <<recordingState, audioLevel, recordingDuration, isOperationInProgress>>
       ELSE /\ StopSettle(i)
            /\ UNCHANGED transcriptionHistory
    /\ UNCHANGED <<timerVars, error, uploadSize, recordingStartTime, errTimers, ops, capture>>

\* step 2 resolved
TranscribeOk(i, r) ==
    /\ UNCHANGED histVars
    /\ StoreFlushed
    /\ UNCHANGED <<now, cb, levelPolls, hotkeyVars>>
    /\ calls[i].pc = "transcribe_and_insert"
    /\ transcription' = r.final_text
    /\ IF r.final_text # <<>> /\ Trim(r.final_text) # <<>>
       THEN /\ transcriptionHistory' = AddToHistory(transcriptionHistory, r.original,
                                          r.polished, r.final_text, calls[i].audio, now)
            /\ calls' = [calls EXCEPT ![i].pc = "save_history_item", ![i].result = r,
                                      ![i].timestamp = now]
            /\ UNCHANGED <<recordingState, audioLevel, recordingDuration, isOperationInProgress>>
       ELSE /\ StopSettle(i)
            /\ UNCHANGED transcriptionHistory
    /\ UNCHANGED <<timerVars, error, uploadSize, recordingStartTime, errTimers, ops, capture>>

\* the step 2 catch block of the earlier variant: setRecordingState('error')
TranscribeFailToError(i) ==
    /\ UNCHANGED histVars
    /\ StoreFlushed
    /\ UNCHANGED <<now, cb, levelPolls, hotkeyVars>>
    /\ calls[i].pc = "transcribe_and_insert"
    /\ error' = "transcribe_and_insert failed"
    /\ recordingState' = "error"
    /\ audioLevel' = 0
    /\ recordingDuration' = 0
    /\ isOperationInProgress' = FALSE
    /\ calls' = Remove(calls, i)
    /\ errTimers' = errTimers \cup {now + ERROR_CLEAR_MS}
    /\ UNCHANGED <<timerVars, uploadSize, recordingStartTime, transcription,
                   transcriptionHistory, ops, capture>>

\* step 2 rejected
TranscribeFail(i) ==
    /\ UNCHANGED histVars
    /\ StoreFlushed
    /\ UNCHANGED <<now, cb, levelPolls, hotkeyVars>>
    /\ calls[i].pc = "transcribe_and_insert"
    /\ error' = "transcribe_and_insert failed"
    /\ StopSettle(i)
    /\ errTimers' = errTimers \cup {now + ERROR_CLEAR_MS}
    /\ UNCHANGED <<timerVars, uploadSize, recordingStartTime, transcription,
                   transcriptionHistory, ops, capture>>

\* invoke('save_history_item') settled: either way the usage report follows
SaveHistoryItemDone(i, ok) ==
    /\ UNCHANGED histVars
    /\ StoreFlushed
    /\ UNCHANGED <<now, cb, levelPolls, hotkeyVars>>
    /\ calls[i].pc = "save_history_item"
    /\ calls' = [calls EXCEPT ![i].pc = "update_stats"]
    /\ UNCHANGED <<isOperationInProgress, timerVars, storeVars, errTimers, ops, capture>>

\* invoke('update_stats') settled: either way back to idle
UpdateStatsDone(i, ok) ==
    /\ UNCHANGED histVars
    /\ StoreFlushed
    /\ UNCHANGED <<now, cb, levelPolls, hotkeyVars>>
    /\ calls[i].pc = "update_stats"
    /\ StopSettle(i)
    /\ UNCHANGED <<timerVars, error, uploadSize, recordingStartTime, transcription,
                   transcriptionHistory, errTimers, ops, capture>>

\* ---------------------------------------------------------- resetState
ResetState(c) ==
    /\ ClearIntervals(c)
    /\ recordingState' = "idle"
    /\ error' = NoError
    /\ audioLevel' = 0
    /\ recordingDuration' = 0
    /\ recordingStartTime' = Null
    /\ UNCHANGED <<isOperationInProgress, nextId, uploadSize, transcription,
                   transcriptionHistory, calls, errTimers, ops, capture>>

\* callers other than the hotkey coordinator, using the callbacks of the last render
DirectStart ==
    /\ UNCHANGED histVars
    /\ StoreFlushed
    /\ ops < MaxOps
    /\ StartRecording(cb, FALSE)
    /\ UNCHANGED <<now, cb, levelPolls, hotkeyVars>>

DirectStop ==
    /\ UNCHANGED histVars
    /\ StoreFlushed
    /\ ops < MaxOps
    /\ StopRecording(cb)
    /\ UNCHANGED <<now, cb, levelPolls, hotkeyVars>>

DirectReset ==
    /\ UNCHANGED histVars
    /\ StoreFlushed
    /\ ResetState(cb)
    /\ UNCHANGED <<now, cb, levelPolls, hotkeyVars>>

\* ------------------------------------------------- timers and the clock
\* the 50 ms interval callback: invoke('get_audio_level')
LevelTick ==
    /\ UNCHANGED histVars
    /\ StoreFlushed
    /\ \E r \in liveIntervals : r.kind = "level"
    /\ levelPolls < MaxPolls
    /\ levelPolls' = levelPolls + 1
    /\ UNCHANGED <<now, ctlVars, cb, hotkeyVars>>

\* get_audio_level settled: setAudioLevel(level), or the error is only logged
LevelResponse(ok, level) ==
    /\ UNCHANGED histVars
    /\ StoreFlushed
    /\ levelPolls > 0
    /\ levelPolls' = levelPolls - 1
    /\ audioLevel' = IF ok THEN level ELSE audioLevel
    /\ UNCHANGED <<now, isOperationInProgress, timerVars, recordingState, error, uploadSize,
                   recordingStartTime, recordingDuration, transcription, transcriptionHistory,
                   calls, errTimers, ops, capture, cb, hotkeyVars>>

\* the 100 ms interval callback: elapsed seconds since the startTime it closed over
DurationTick ==
    /\ UNCHANGED histVars
    /\ StoreFlushed
    /\ \E r \in liveIntervals :
          /\ r.kind = "duration"
          /\ recordingDuration' = (now - r.startTime) \div MS_PER_SECOND
    /\ UNCHANGED <<now, isOperationInProgress, timerVars, recordingState, audioLevel, error,
                   uploadSize, recordingStartTime, transcription, transcriptionHistory,
                   calls, errTimers, ops, capture, cb, levelPolls, hotkeyVars>>

\* the timer callback also putting the controller back to idle
ErrorTimerFireToIdle ==
    /\ UNCHANGED histVars
    /\ StoreFlushed
    /\ \E d \in errTimers :
          /\ now >= d
          /\ errTimers' = errTimers \ {d}
    /\ error' = NoError
    /\ recordingState' = "idle"
    /\ UNCHANGED <<now, isOperationInProgress, timerVars, audioLevel,
                   uploadSize, recordingStartTime, recordingDuration, transcription,
                   transcriptionHistory, calls, ops, capture, cb, levelPolls, hotkeyVars>>

\* setTimeout(() => setError(null), 3000) fires
ErrorTimerFire ==
    /\ UNCHANGED histVars
    /\ StoreFlushed
    /\ \E d \in errTimers :
          /\ now >= d
          /\ errTimers' = errTimers \ {d}
    /\ error' = NoError
    /\ UNCHANGED <<now, isOperationInProgress, timerVars, recordingState, audioLevel,
                   uploadSize, recordingStartTime, recordingDuration, transcription,
                   transcriptionHistory, calls, ops, capture, cb, levelPolls, hotkeyVars>>

\* time passes: by one ClockStep, or up to the next setTimeout deadline
ClockTick ==
    /\ UNCHANGED histVars
    /\ StoreFlushed
    /\ \/ /\ now + ClockStep <= MaxTime
          /\ now' = now + ClockStep
       \/ /\ \E d \in errTimers : d > now
          /\ now' = CHOOSE d \in errTimers : d > now /\ \A e \in errTimers : e > now => d <= e
    /\ UNCHANGED <<ctlVars, cb, levelPolls, hotkeyVars>>

\* ------------------------------------------------- hotkey coordinator
\* the debounce interval taken in seconds
DebouncedInSeconds == now - lastActionTime < DEBOUNCE_MS \div MS_PER_SECOND

\* the debounce test both listeners start with
Debounced == now - lastActionTime < DEBOUNCE_MS

\* the press listener without the currentState === 'idle' test
HotkeyPressedUngated ==
    /\ UNCHANGED histVars
    /\ StoreFlushed
    /\ ops < MaxOps
    /\ IF Debounced
       THEN UNCHANGED <<ctlVars, hotkeyVars>>
       ELSE IF isProcessingHotkey
       THEN UNCHANGED <<ctlVars, hotkeyVars>>
       ELSE /\ lastActionTime' = now
            /\ pendingRelease' = FALSE
            /\ StartRecording(cb, TRUE)
            /\ isProcessingHotkey' = (calls' # calls)
            /\ UNCHANGED recordingStateRef
    /\ UNCHANGED <<now, cb, levelPolls>>

\* listen('hotkey-pressed', ...)
HotkeyPressed ==
    /\ UNCHANGED histVars
    /\ StoreFlushed
    /\ ops < MaxOps
    /\ IF Debounced
       THEN UNCHANGED <<ctlVars, hotkeyVars>>   \* 'Hotkey press ignored - debounce'
       ELSE IF isProcessingHotkey
       THEN UNCHANGED <<ctlVars, hotkeyVars>>   \* 'Hotkey press ignored - already processing'
       ELSE IF recordingStateRef = "idle"
       THEN /\ lastActionTime' = now
            /\ pendingRelease' = FALSE
            /\ StartRecording(cb, TRUE)
            \* the flag stays set only while startRecording is suspended
            /\ isProcessingHotkey' = (calls' # calls)
            /\ UNCHANGED recordingStateRef
       ELSE UNCHANGED <<ctlVars, hotkeyVars>>
    /\ UNCHANGED <<now, cb, levelPolls>>

\* listen('hotkey-released', ...)
HotkeyReleased ==
    /\ UNCHANGED histVars
    /\ StoreFlushed
    /\ ops < MaxOps
    /\ IF Debounced
       THEN UNCHANGED <<ctlVars, hotkeyVars>>   \* 'Hotkey release ignored - debounce'
       ELSE IF recordingStateRef = "recording"
       THEN /\ lastActionTime' = now
            /\ StopRecording(cb)
            /\ UNCHANGED <<recordingStateRef, isProcessingHotkey, pendingRelease>>
       ELSE IF isProcessingHotkey
       THEN /\ pendingRelease' = TRUE
            /\ UNCHANGED <<ctlVars, recordingStateRef, isProcessingHotkey, lastActionTime>>
       ELSE UNCHANGED <<ctlVars, hotkeyVars>>
    /\ UNCHANGED <<now, cb, levelPolls>>

\* re-render after a store or hook-state change, and the recordingState effect
Render ==
    /\ UNCHANGED histVars
    /\ ~Flushed
    /\ cb' = Closure
    /\ recordingStateRef' = recordingState
    /\ IF pendingRelease /\ recordingState = "recording"
       THEN /\ pendingRelease' = FALSE
            /\ StopRecording(Closure)
       ELSE /\ pendingRelease' = IF recordingState = "idle" THEN FALSE ELSE pendingRelease
            /\ UNCHANGED ctlVars
    /\ UNCHANGED <<now, levelPolls, isProcessingHotkey, lastActionTime>>

Next ==
    \/ DirectStart
    \/ DirectStop
    \/ DirectReset
    \/ HotkeyPressed
    \/ HotkeyReleased
    \/ Render
    \/ \E i \in DOMAIN calls : StartRecordingOk(i)
    \/ \E i \in DOMAIN calls : StartRecordingFail(i)
    \/ \E i \in DOMAIN calls, a \in Audios : StopRecordingOk(i, a)
    \/ \E i \in DOMAIN calls : StopRecordingFail(i)
    \/ \E i \in DOMAIN calls, r \in Results : TranscribeOk(i, r)
    \/ \E i \in DOMAIN calls : TranscribeFail(i)
    \/ \E i \in DOMAIN calls, ok \in BOOLEAN : SaveHistoryItemDone(i, ok)
    \/ \E i \in DOMAIN calls, ok \in BOOLEAN : UpdateStatsDone(i, ok)
    \/ LevelTick
    \/ \E ok \in BOOLEAN, level \in Levels : LevelResponse(ok, level)
    \/ DurationTick
    \/ ErrorTimerFire
    \/ ClockTick

Spec == Init /\ [][Next]_vars

\* ================================================ useTranscriptionHistory
ctlSide == <<ctlVars, cb, levelPolls, hotkeyVars>>

\* the lists, the key's value and the queued storage events
World == [hist |-> hist, ls |-> localStorage, ev |-> events]

Commit(W) ==
    /\ hist' = W.hist
    /\ localStorage' = W.ls
    /\ events' = W.ev

\* setItem/removeItem by window w: a changed value is queued as a storage event
\* for every other window that has registered the listener
Write(W, w, value) ==
    IF value = W.ls THEN W
    ELSE [W EXCEPT !.ls = value,
                   !.ev = [v \in Windows |->
                             IF v # w /\ isInitialized[v] THEN Append(W.ev[v], value)
                             ELSE W.ev[v]]]

\* setState({ transcriptionHistory: list }) in window w and the save effect of
\* the re-render it causes
SetHistory(W, w, list) == Write([W EXCEPT !.hist[w] = list], w, Stringify(list))

\* an async function of the hook, suspended at await openDB() or at its request
Task(w, kind, fails, items, audio) ==
    [w |-> w, kind |-> kind, pc |-> "open", fails |-> fails, items |-> items,
     timestamp |-> now, audio |-> audio,
     keys |-> {r.timestamp : r \in audioDB}]   \* the blobs stored when it was called

ReadOnly(t) == t.kind \in {"load", "sync"}

\* the transaction of task t is created: reads see db, a put or clear changes it
\* unless the request errors
Issue(t, db) ==
    CASE ReadOnly(t) ->
            [task |-> [t EXCEPT !.pc = "request", !.items = Hydrate(t.items, db, TRUE)],
             db |-> db]
      [] t.kind = "add" ->
            [task |-> [t EXCEPT !.pc = "request"],
             db |-> IF t.fails THEN db ELSE PutAudioData(db, t.timestamp, t.audio)]
      [] t.kind = "clear" ->
            [task |-> [t EXCEPT !.pc = "request"],
             db |-> IF t.fails THEN db ELSE {}]

\* openDB() rejected: the catch of the audioStorage function logs, no request is made
NoDb(t) == [t EXCEPT !.pc = "request", !.fails = FALSE, !.items = Hydrate(t.items, {}, FALSE)]

\* the continuation of task t after its await
Settle(W, t) ==
    IF t.fails THEN W   \* the request's onerror rejects the awaited promise
    ELSE CASE ReadOnly(t) -> SetHistory(W, t.w, t.items)
           [] t.kind = "add" ->
                 SetHistory(W, t.w, AddToHistory(W.hist[t.w], <<"a">>, "null", <<"a">>,
                                                 t.audio, t.timestamp))
           [] t.kind = "clear" -> SetHistory(Write(W, t.w, NullLS), t.w, <<>>)

\* an async function reaches await openDB()
Launch(W, t) ==
    CASE dbPromise[t.w] = "rejected" ->
            /\ Commit(Settle(W, NoDb(t)))
            /\ UNCHANGED <<audioDB, dbPromise, tasks>>
      [] dbPromise[t.w] = "resolved" ->
            /\ Commit(W)
            /\ audioDB' = Issue(t, audioDB).db
            /\ tasks' = Append(tasks, Issue(t, audioDB).task)
            /\ UNCHANGED dbPromise
      [] OTHER ->
            /\ Commit(W)
            /\ dbPromise' = [dbPromise EXCEPT ![t.w] = "pending"]
            /\ tasks' = Append(tasks, t)
            /\ UNCHANGED audioDB

\* one call made, with or without a storage fault planted in it
Spend(calls_, f) ==
    /\ budget >= calls_ + (IF f THEN 1 ELSE 0)
    /\ budget' = budget - calls_ - (IF f THEN 1 ELSE 0)

\* the three effects of the first render: loadHistory up to its await, the
\* storage listener, the save effect
Mount(w, f) ==
    /\ ~isInitialized[w]
    /\ \A v \in Windows : v < w => isInitialized[v]   \* opened from the first window
    /\ isInitialized' = [isInitialized EXCEPT ![w] = TRUE]
    /\ LET items == ParseSlice(localStorage)
           W1 == Write(World, w, Stringify(hist[w]))
       IN  IF localStorage.kind = "json" /\ items # <<>>
           THEN /\ Launch(W1, Task(w, "load", f, items, Undefined))
                /\ Spend(0, f)
           ELSE /\ ~f
                /\ Commit(W1)
                /\ UNCHANGED <<audioDB, dbPromise, tasks, budget>>
    /\ UNCHANGED <<now, ctlSide>>

\* indexedDB.open settles: the functions waiting for it go on in call order
RECURSIVE IssueAll(_, _, _)
IssueAll(ts, w, db) ==
    IF ts = <<>> THEN [tasks |-> <<>>, db |-> db]
    ELSE LET t == Head(ts)
             r == IF t.w = w /\ t.pc = "open" THEN Issue(t, db) ELSE [task |-> t, db |-> db]
             rest == IssueAll(Tail(ts), w, r.db)
         IN  [tasks |-> <<r.task>> \o rest.tasks, db |-> rest.db]

RECURSIVE SettleAll(_, _, _)
SettleAll(ts, w, W) ==
    IF ts = <<>> THEN W
    ELSE SettleAll(Tail(ts), w,
                   IF Head(ts).w = w /\ Head(ts).pc = "open"
                   THEN Settle(W, NoDb(Head(ts))) ELSE W)

OpenDone(w, ok) ==
    /\ dbPromise[w] = "pending"
    /\ IF ok
       THEN /\ dbPromise' = [dbPromise EXCEPT ![w] = "resolved"]
            /\ tasks' = IssueAll(tasks, w, audioDB).tasks
            /\ audioDB' = IssueAll(tasks, w, audioDB).db
            /\ UNCHANGED <<hist, localStorage, events, budget>>
       ELSE /\ Spend(0, TRUE)
            /\ dbPromise' = [dbPromise EXCEPT ![w] = "rejected"]
            /\ Commit(SettleAll(tasks, w, World))
            /\ tasks' = SelectSeq(tasks, LAMBDA t : ~(t.w = w /\ t.pc = "open"))
            /\ UNCHANGED audioDB
    /\ UNCHANGED <<now, ctlSide, isInitialized>>

\* a request settles; the requests of one connection are served in the order made
TaskDone(i, kind) ==
    /\ tasks[i].kind = kind
    /\ tasks[i].pc = "request"
    /\ \A j \in 1..(i - 1) : tasks[j].w # tasks[i].w
    /\ Commit(Settle(World, tasks[i]))
    /\ tasks' = Remove(tasks, i)
    /\ UNCHANGED <<now, ctlSide, isInitialized, audioDB, dbPromise, budget>>

\* loadHistory after await Promise.all(...)
LoadDone(i) == TaskDone(i, "load")

\* handleStorageChange after await Promise.all(...)
SyncDone(i) == TaskDone(i, "sync")

\* addToHistory after await saveAudioData(...)
AddDone(i) == TaskDone(i, "add")

\* clearHistory after await clearAllAudioData()
ClearDone(i) == TaskDone(i, "clear")

\* window.addEventListener('storage', handleStorageChange)
StorageEvent(w, f) ==
    /\ events[w] # <<>>
    /\ LET e == Head(events[w])
           W0 == [World EXCEPT !.ev[w] = Tail(events[w])]
           items == ParseSlice(e)
       IN  IF e.kind = "json" /\ items # <<>>
           THEN /\ Launch(W0, Task(w, "sync", f, items, Undefined))
                /\ f => dbPromise[w] # "rejected"
                /\ Spend(0, f)
           ELSE /\ ~f
                /\ Commit(IF e.kind = "malformed" THEN W0 ELSE SetHistory(W0, w, <<>>))
                /\ UNCHANGED <<audioDB, dbPromise, tasks, budget>>
    /\ UNCHANGED <<now, ctlSide, isInitialized>>

\* the hook's addToHistory(original, polished, finalText, audioData)
AddCall(w, audio, f) ==
    /\ isInitialized[w]
    /\ f => (audio # Undefined /\ dbPromise[w] # "rejected")
    /\ Spend(1, f)
    /\ IF audio = Undefined
       THEN /\ Commit(Settle(World, NoDb(Task(w, "add", FALSE, <<>>, audio))))
            /\ UNCHANGED <<audioDB, dbPromise, tasks>>
       ELSE Launch(World, Task(w, "add", f, <<>>, audio))
    /\ UNCHANGED <<now, ctlSide, isInitialized>>

\* the hook's clearHistory()
ClearCall(w, f) ==
    /\ isInitialized[w]
    /\ f => dbPromise[w] # "rejected"
    /\ Spend(1, f)
    /\ Launch(World, Task(w, "clear", f, <<>>, Undefined))
    /\ UNCHANGED <<now, ctlSide, isInitialized>>

\* the window is reloaded: a fresh store, fresh refs, nothing suspended
Restart(w) ==
    /\ isInitialized[w]
    /\ Spend(1, FALSE)
    /\ hist' = [hist EXCEPT ![w] = <<>>]
    /\ isInitialized' = [isInitialized EXCEPT ![w] = FALSE]
    /\ dbPromise' = [dbPromise EXCEPT ![w] = "none"]
    /\ events' = [events EXCEPT ![w] = <<>>]
    /\ tasks' = SelectSeq(tasks, LAMBDA t : t.w # w)
    /\ UNCHANGED <<now, ctlSide, localStorage, audioDB>>

\* other code of the origin stores a value that is not a JSON array
ForeignWrite ==
    /\ Spend(1, FALSE)
    /\ localStorage # Malformed
    /\ Commit(Write(World, 0, Malformed))
    /\ UNCHANGED <<now, ctlSide, isInitialized, audioDB, dbPromise, tasks>>

\* Date.now() advances
HistClockTick ==
    /\ now + ClockStep <= HistMaxTime
    /\ now' = now + ClockStep
    /\ UNCHANGED <<ctlSide, histVars>>

\* one window
HistNext ==
    \/ \E f \in BOOLEAN : Mount(1, f)
    \/ \E ok \in BOOLEAN : OpenDone(1, ok)
    \/ \E i \in DOMAIN tasks : LoadDone(i)
    \/ \E i \in DOMAIN tasks : AddDone(i)
    \/ \E i \in DOMAIN tasks : ClearDone(i)
    \/ \E audio \in HistAudios, f \in BOOLEAN : AddCall(1, audio, f)
    \/ \E f \in BOOLEAN : ClearCall(1, f)
    \/ Restart(1)
    \/ HistClockTick

HistSpec == HistInit /\ [][HistNext]_vars

\* two windows sharing localStorage and the database
SyncNext ==
    \/ \E w \in Windows, f \in BOOLEAN : Mount(w, f)
    \/ \E w \in Windows, ok \in BOOLEAN : OpenDone(w, ok)
    \/ \E i \in DOMAIN tasks : LoadDone(i)
    \/ \E i \in DOMAIN tasks : SyncDone(i)
    \/ \E i \in DOMAIN tasks : AddDone(i)
    \/ \E i \in DOMAIN tasks : ClearDone(i)
    \/ \E w \in Windows, f \in BOOLEAN : StorageEvent(w, f)
    \/ \E w \in Windows, audio \in SyncAudios, f \in BOOLEAN : AddCall(w, audio, f)
    \/ \E w \in Windows, f \in BOOLEAN : ClearCall(w, f)
    \/ \E w \in Windows : Restart(w)
    \/ ForeignWrite
    \/ HistClockTick

SyncSpec == SyncInit /\ [][SyncNext]_vars

\* ------------------------------------------- backend-authoritative history
\* audio_data: null at the backend boundary
BackendNull == <<Null, Null>>

\* a history item as load_history returns it
BackendItem(ts, audio) ==
    [original |-> <<"a">>, polished |-> "null", final_text |-> <<"a">>,
     timestamp |-> ts, audio_data |-> audio]

\* the lists load_history may return: nothing, or one item with or without audio
BackendLists == {<<>>, <<BackendItem(1, BackendNull)>>, <<BackendItem(1, <<7>>)>>}

fromBackend(item) ==
    [original |-> item.original, polished |-> item.polished,
     finalText |-> item.final_text, timestamp |-> item.timestamp,
     audioData |-> IF item.audio_data = BackendNull THEN Undefined ELSE item.audio_data]

\* invoke(...) of the hook: the call is pending until the backend answers
Invoke(kind, fails, items, audio) ==
    [Task(1, kind, fails, items, audio) EXCEPT !.pc = "request"]

\* the load effect of the first render: invoke('load_history')
BackendMount(list, f) ==
    /\ ~isInitialized[1]
    /\ Spend(0, f)
    /\ isInitialized' = [isInitialized EXCEPT ![1] = TRUE]
    /\ tasks' = Append(tasks, Invoke("load_history", f,
                                     IF list = <<>> THEN <<>>
                                     ELSE [k \in 1..Len(list) |-> fromBackend(list[k])],
                                     Undefined))
    /\ UNCHANGED <<now, ctlSide, hist, localStorage, audioDB, dbPromise, events>>

\* an invoke of the hook settles
BackendDone(i, kind) ==
    /\ tasks[i].kind = kind
    /\ tasks' = Remove(tasks, i)
    /\ UNCHANGED <<now, ctlSide, isInitialized, localStorage, audioDB, dbPromise,
                   events, budget>>

\* loadHistory after await invoke('load_history')
BackendLoadDone(i) ==
    /\ BackendDone(i, "load_history")
    /\ hist' = IF tasks[i].fails THEN hist ELSE [hist EXCEPT ![1] = tasks[i].items]

\* addToHistory: the store first, then invoke('save_history_item')
BackendAddCall(audio, f) ==
    /\ isInitialized[1]
    /\ Spend(1, f)
    /\ hist' = [hist EXCEPT ![1] = AddToHistory(hist[1], <<"a">>, "null", <<"a">>, audio, now)]
    /\ tasks' = Append(tasks, Invoke("save_history_item", f, <<>>, audio))
    /\ UNCHANGED <<now, ctlSide, isInitialized, localStorage, audioDB, dbPromise, events>>

\* addToHistory after await invoke('save_history_item'): logs either way
BackendSaveDone(i) ==
    /\ BackendDone(i, "save_history_item")
    /\ UNCHANGED hist

\* clearHistory up to await invoke('clear_history')
BackendClearCall(f) ==
    /\ isInitialized[1]
    /\ Spend(1, f)
    /\ tasks' = Append(tasks, Invoke("clear_history", f, <<>>, Undefined))
    /\ UNCHANGED <<now, ctlSide, isInitialized, hist, localStorage, audioDB, dbPromise,
                   events>>

\* clearHistory after the await: storeClearHistory() unless the invoke threw
BackendClearDone(i) ==
    /\ BackendDone(i, "clear_history")
    /\ hist' = IF tasks[i].fails THEN hist ELSE [hist EXCEPT ![1] = <<>>]

BackendInit == CtlInit /\ HistoryInit(NullLS, MaxCalls)

BackendNext ==
    \/ \E list \in BackendLists, f \in BOOLEAN : BackendMount(list, f)
    \/ \E i \in DOMAIN tasks : BackendLoadDone(i)
    \/ \E audio \in HistAudios, f \in BOOLEAN : BackendAddCall(audio, f)
    \/ \E i \in DOMAIN tasks : BackendSaveDone(i)
    \/ \E f \in BOOLEAN : BackendClearCall(f)
    \/ \E i \in DOMAIN tasks : BackendClearDone(i)
    \/ HistClockTick

BackendSpec == BackendInit /\ [][BackendNext]_vars

\* ------------------------------------------------- two windows, no faults
\* what the event loop of window w is bound to do: dispatch a queued storage
\* event, settle indexedDB.open, complete a request
Handle(w) ==
    \/ StorageEvent(w, FALSE)
    \/ OpenDone(w, TRUE)
    \/ \E i \in DOMAIN tasks : tasks[i].w = w /\ TaskDone(i, tasks[i].kind)

QuiesceNext ==
    \/ \E w \in Windows : Mount(w, FALSE)
    \/ \E w \in Windows : OpenDone(w, TRUE)
    \/ \E i \in DOMAIN tasks : LoadDone(i)
    \/ \E i \in DOMAIN tasks : SyncDone(i)
    \/ \E i \in DOMAIN tasks : AddDone(i)
    \/ \E i \in DOMAIN tasks : ClearDone(i)
    \/ \E w \in Windows : StorageEvent(w, FALSE)
    \/ \E w \in Windows, audio \in SyncAudios : AddCall(w, audio, FALSE)
    \/ \E w \in Windows : ClearCall(w, FALSE)
    \/ HistClockTick

\* every queued event is dispatched and every request completes
QuiesceSpec ==
    /\ SyncInit
    /\ [][QuiesceNext]_vars
    /\ \A w \in Windows : WF_vars(Handle(w))

\* ================================================================ claims
\* a step in which some caller invokes startRecording or stopRecording
CallsStartOrStop == DirectStart \/ DirectStop \/ HotkeyPressed \/ HotkeyReleased \/ Render

InFlight(op) == {i \in DOMAIN calls : calls[i].op = op}

\* C1: startRecording and stopRecording are mutually exclusive: at most one call
\* is in flight in every reachable state (so begin-capture is never pending
\* twice), and a start or stop made while the lock is held changes neither the
\* lock, RecordingState, the Session, the timers nor the set of pending remote
\* calls, and is not queued.
C1_MutualExclusion ==
    /\ [](Len(calls) <= 1)
    /\ [][(isOperationInProgress /\ CallsStartOrStop) => UNCHANGED ctlVars]_vars

\* a release was honoured after the hotkey start began and while it is still
\* in flight: its stopRecording call met the held lock
C1_Witness ==
    /\ Len(calls) = 1
    /\ calls[1].op = "start"
    /\ calls[1].hotkey
    /\ isOperationInProgress
    /\ lastActionTime > calls[1].startTime

\* C2: a call that took the lock has released it when it settles, on every
\* path, and the lock is never held while no start or stop is in flight.
C2_LockReleased ==
    /\ [](isOperationInProgress => calls # <<>>)
    /\ [][Len(calls') < Len(calls) => ~isOperationInProgress']_vars

\* a stop that went through transcription and the history save has settled
C2_Witness ==
    /\ calls = <<>>
    /\ ~isOperationInProgress
    /\ transcriptionHistory # <<>>
    /\ ops >= 1

\* C3 as stated: once every in-flight operation has settled, RecordingState is Idle.
C3_Original == calls = <<>> => recordingState = "idle"

\* C3 amended: once every in-flight operation has settled, RecordingState is Idle
\* or Recording, never Processing or Error; Error is never entered at all, and a
\* stopRecording that settles always leaves Idle.
C3_SettledIdleOrRecording ==
    /\ [](calls = <<>> => recordingState \in {"idle", "recording"})
    /\ [](recordingState # "error")
    /\ [][(InFlight("stop") # {} /\ calls' = <<>>) => recordingState' = "idle"]_vars

\* a stop whose transcription failed has settled
C3_Witness ==
    /\ calls = <<>>
    /\ recordingState = "idle"
    /\ error = "transcribe_and_insert failed"

\* C4: RecordingState = Recording implies Session.startedAt is not null.
C4_RecordingHasStartTime == recordingState = "recording" => recordingStartTime # Null

\* recording, with the start settled
C4_Witness ==
    /\ recordingState = "recording"
    /\ recordingStartTime # Null
    /\ calls = <<>>
    /\ liveIntervals # {}

\* C5 as stated: a release handled (past the debounce window) while a
\* hotkey-triggered start is in flight is either recorded as a pending release
\* or gets its stopRecording executed, i.e. a stop call takes the lock.
C5_Original ==
    [][(HotkeyReleased /\ isProcessingHotkey /\ ~Debounced)
          => (pendingRelease' \/ \E i \in DOMAIN calls' : calls'[i].op = "stop")]_vars

\* C6: a press or release arriving less than 300 ms after the last processed
\* signal calls neither startRecording nor stopRecording, queues no pending
\* release and leaves the debounce reference time where it was.
C6_Debounce ==
    [][((HotkeyPressed \/ HotkeyReleased) /\ now - lastActionTime < DEBOUNCE_MS)
          => UNCHANGED <<ctlVars, hotkeyVars>>]_vars

\* 150 ms after a processed press, its start still in flight: a release
\* arriving now falls in the debounce window
C6_Witness ==
    /\ isProcessingHotkey
    /\ recordingStateRef = "recording"
    /\ lastActionTime = calls[1].startTime
    /\ 0 < now - lastActionTime
    /\ now - lastActionTime < DEBOUNCE_MS

\* the hotkey signals can be processed: nothing is in flight, rendered, and the
\* debounce window has passed
Responsive == calls = <<>> /\ StoreFlushed /\ ~Debounced /\ ops < MaxOps

\* C7: the hotkey never becomes permanently unresponsive: once an operation has
\* settled neither the lock nor the in-flight flag is set and the state is Idle
\* or Recording; from Recording a release (past the debounce window) takes the
\* lock and stops, from Idle a press starts a recording.
C7_HotkeyResponsive ==
    /\ calls = <<>> => (~isOperationInProgress /\ ~isProcessingHotkey)
    /\ calls = <<>> => recordingState \in {"idle", "recording"}
    /\ (Responsive /\ recordingState = "recording")
          => ENABLED (HotkeyReleased /\ recordingState' = "processing")
    /\ (Responsive /\ recordingState = "idle")
          => ENABLED (HotkeyPressed /\ recordingState' = "recording")

\* a release was lost to the lock while the start was in flight
\* (lastActionTime moved after the session began); the start has settled
C7_Witness ==
    /\ Responsive
    /\ recordingState = "recording"
    /\ ~isProcessingHotkey
    /\ lastActionTime > recordingStartTime

\* C8: a press handled while RecordingState is not Idle calls no startRecording
\* and a release handled while it is not Recording calls no stopRecording; the
\* only thing such a release may do is set the pending-release flag, and only
\* when a hotkey start is in flight.
C8_StateGatedDispatch ==
    /\ [][(HotkeyPressed /\ recordingState # "idle")
            => UNCHANGED <<ctlVars, hotkeyVars>>]_vars
    /\ [][(HotkeyReleased /\ recordingState # "recording")
            => /\ UNCHANGED <<ctlVars, recordingStateRef, isProcessingHotkey, lastActionTime>>
               /\ pendingRelease' # pendingRelease => (isProcessingHotkey /\ pendingRelease')]_vars

\* a release handled in Idle (after a reset) during a hotkey start: only the flag is set
C8_Witness ==
    /\ recordingState = "idle"
    /\ recordingStateRef = "idle"
    /\ isProcessingHotkey
    /\ pendingRelease
    /\ Len(calls) = 1

\* C9 as stated: startRecording called with the lock free while RecordingState
\* is not Idle changes nothing: no begin-capture, no new Session, no ticks.
C9_Original ==
    [][(DirectStart /\ recordingState # "idle" /\ ~isOperationInProgress)
          => UNCHANGED ctlVars]_vars

\* C10: when begin-capture fails the state goes straight to Idle, startedAt is
\* cleared, the error message is set, the lock is released, no tick is started
\* and a 3000 ms timer is armed; when that timer fires it clears the message
\* and leaves the state and the Session alone.
C10_BeginCaptureFailure ==
    /\ [][(\E i \in DOMAIN calls : StartRecordingFail(i))
            => /\ recordingState' = "idle"
               /\ recordingStartTime' = Null
               /\ error' # NoError
               /\ ~isOperationInProgress'
               /\ (now + ERROR_CLEAR_MS) \in errTimers'
               /\ UNCHANGED timerVars]_vars
    /\ [][ErrorTimerFire
            => /\ error' = NoError
               /\ UNCHANGED <<recordingState, recordingStartTime, recordingDuration,
                              audioLevel, uploadSize, isOperationInProgress, timerVars>>]_vars

\* begin-capture has failed and the message has not expired yet
C10_Witness ==
    /\ error = "start_recording failed"
    /\ recordingState = "idle"
    /\ recordingStartTime = Null
    /\ calls = <<>>
    /\ liveIntervals = {}
    /\ \E d \in errTimers : d > now

\* C11: when finalize-capture fails, the stop requests no transcription, and in
\* the same step upload size is unset, level and duration are 0, the state is
\* Idle, the error message is set, the lock is released and the 3000 ms timer is
\* armed; a message always has a timer pending, and the timer firing clears it.
C11_EndCaptureFailure ==
    /\ [][\A i \in DOMAIN calls : StopRecordingFail(i)
            => /\ \A j \in DOMAIN calls' : calls'[j].pc # "transcribe_and_insert"
               /\ InFlight("stop")' = {}
               /\ uploadSize' = Null
               /\ audioLevel' = 0
               /\ recordingDuration' = 0
               /\ recordingState' = "idle"
               /\ error' = "stop_recording failed"
               /\ ~isOperationInProgress'
               /\ (now + ERROR_CLEAR_MS) \in errTimers']_vars
    /\ [](error # NoError => errTimers # {})
    /\ [][(ErrorTimerFire /\ error = "stop_recording failed") => error' = NoError]_vars

\* finalize-capture has failed: Idle, message shown, nothing in flight
C11_Witness ==
    /\ error = "stop_recording failed"
    /\ recordingState = "idle"
    /\ uploadSize = Null
    /\ calls = <<>>
    /\ ~isOperationInProgress

\* C12: when transcription succeeds, exactly one item carrying the audio bytes of
\* this stop is prepended to the history if finalText is non-empty after
\* trimming, and the backend save is requested; otherwise the history is
\* unchanged, neither save nor usage report is requested and the stop settles.
\* Either way the stop ends with RecordingState = Idle.
C12_HistoryIffNonBlank ==
    /\ [][\A i \in DOMAIN calls, r \in Results :
            (TranscribeOk(i, r) /\ Trim(r.final_text) # <<>>)
               => /\ Len(transcriptionHistory') = Len(transcriptionHistory) + 1
                  /\ Tail(transcriptionHistory') = transcriptionHistory
                  /\ Head(transcriptionHistory').finalText = r.final_text
                  /\ Head(transcriptionHistory').audioData = calls[i].audio
                  /\ calls'[i].pc = "save_history_item"]_vars
    /\ [][\A i \in DOMAIN calls, r \in Results :
            (TranscribeOk(i, r) /\ Trim(r.final_text) = <<>>)
               => /\ UNCHANGED transcriptionHistory
                  /\ calls' = <<>>
                  /\ recordingState' = "idle"]_vars
    /\ [][(\E i \in DOMAIN calls, ok \in BOOLEAN : UpdateStatsDone(i, ok))
            => (recordingState' = "idle" /\ UNCHANGED transcriptionHistory)]_vars
    /\ [][(\E i \in DOMAIN calls, ok \in BOOLEAN : SaveHistoryItemDone(i, ok))
            => UNCHANGED transcriptionHistory]_vars

\* a transcription of only whitespace has settled: no item, Idle
C12_Witness ==
    /\ transcription = <<" ">>
    /\ transcriptionHistory = <<>>
    /\ recordingState = "idle"
    /\ uploadSize # Null
    /\ calls = <<>>

\* C13 as stated: the audio-level tick and the duration tick are live only while
\* RecordingState is Recording, in every reachable state.
C13_Original == liveIntervals # {} => recordingState = "recording"

\* C14 as stated: resetState, called in any state, leaves RecordingState = Idle,
\* error = null, no periodic tick live, startedAt = null, durationSeconds = 0,
\* currentAudioLevel = 0 and uploadByteSize = null.
C14_Original ==
    [][DirectReset
          => /\ recordingState' = "idle"
             /\ error' = NoError
             /\ liveIntervals' = {}
             /\ recordingStartTime' = Null
             /\ recordingDuration' = 0
             /\ audioLevel' = 0
             /\ uploadSize' = Null]_vars

\* C15 as stated: the in-memory history list never holds more than 20 items.
C15_Original == \A w \in Windows : Len(hist[w]) <= MAX_HISTORY_ITEMS

\* C16 as stated: in every reachable state the in-memory list is ordered newest
\* first by strictly descending timestamp (so timestamps are unique).
C16_Original ==
    \A w \in Windows : \A i, j \in DOMAIN hist[w] :
        i < j => hist[w][i].timestamp > hist[w][j].timestamp

\* what loadHistory of a fresh instance would put in the store now
Reloaded == Hydrate(ParseSlice(localStorage), audioDB, TRUE)

\* C17 as stated: with nothing in flight and the database usable, a fresh
\* instance loads the list the window holds: the same items in the same order
\* with the same original, polished, finalText and timestamp, and the audio
\* bytes of every item that has audio.
C17_Original ==
    (isInitialized[1] /\ tasks = <<>> /\ dbPromise[1] # "rejected")
        => /\ Len(Reloaded) = Len(hist[1])
           /\ \A i \in DOMAIN hist[1] :
                /\ StripAudio(Reloaded[i]) = StripAudio(hist[1][i])
                /\ hist[1][i].audioData # Undefined
                      => Reloaded[i].audioData = hist[1][i].audioData

\* getAudioData(k) as window w would see it after this step
GetAfter(w, k) ==
    IF dbPromise'[w] = "rejected" THEN Undefined ELSE GetAudioData(audioDB', k)

\* C18 as stated: when clearHistory() has settled (its clear request did not
\* error), the in-memory list is empty, the key holds no history item, and
\* get(k) gives null for every audio key k stored before the call.
C18_Original ==
    [][\A i \in DOMAIN tasks :
          (ClearDone(i) /\ ~tasks[i].fails)
             => /\ hist'[tasks[i].w] = <<>>
                /\ localStorage'.items = <<>>
                /\ \A k \in tasks[i].keys : GetAfter(tasks[i].w, k) = Undefined]_vars

\* list is the value e of a notification, parsed and cut to 20 items
Carried(e, list) ==
    /\ Len(list) = (IF Len(e.items) <= MAX_HISTORY_ITEMS THEN Len(e.items)
                    ELSE MAX_HISTORY_ITEMS)
    /\ \A k \in DOMAIN list : StripAudio(list[k]) = e.items[k]

C20_Original ==
    \A w \in Windows :
       /\ Cardinality({hist[w][i].timestamp : i \in DOMAIN hist[w]}) = Len(hist[w])
       /\ ~(Len(hist[w]) > MAX_HISTORY_ITEMS)

\* C21 as stated: in the backend-authoritative hook the in-memory update of add
\* and of clearHistory is applied whatever the backend call does and without
\* waiting for it: the added item heads the list as soon as add is called, the
\* list is empty as soon as clearHistory is called, and the backend's answer,
\* success or failure, leaves the list as it is.
C21_Original ==
    [][/\ \A audio \in HistAudios, f \in BOOLEAN :
             BackendAddCall(audio, f) =>
                /\ Len(hist'[1]) = Len(hist[1]) + 1
                /\ hist'[1][1].timestamp = now /\ hist'[1][1].audioData = audio
       /\ \A f \in BOOLEAN : BackendClearCall(f) => hist'[1] = <<>>
       /\ \A i \in DOMAIN tasks :
             (BackendSaveDone(i) \/ BackendClearDone(i)) => hist'[1] = hist[1]]_vars

\* C22 as stated: a blob read never fails its caller, so when loadHistory has
\* finished, whether its reads succeeded or errored, the in-memory list holds
\* every item it read from the key (up to 20), in order, with the text fields
\* and timestamps unchanged.
C22_Original ==
    [][\A i \in DOMAIN tasks :
          LoadDone(i) =>
             /\ Len(hist'[tasks[i].w]) = Len(tasks[i].items)
             /\ \A k \in DOMAIN tasks[i].items :
                   StripAudio(hist'[tasks[i].w][k]) = StripAudio(tasks[i].items[k])]_vars

\* C23 as stated: a failed blob write never reaches the caller of add: when
\* the hook's addToHistory has finished waiting for saveAudioData, whether the
\* put succeeded or errored, the item heads the in-memory list and no error is
\* shown.
C23_Original ==
    [][\A i \in DOMAIN tasks :
          AddDone(i) =>
             /\ Len(hist'[tasks[i].w]) = Len(hist[tasks[i].w]) + 1
             /\ hist'[tasks[i].w][1].timestamp = tasks[i].timestamp
             /\ error' = NoError]_vars

\* C24: a pending error timer stays pending until it fires (no step cancels
\* it), and its firing sets error to null and changes nothing else: not
\* RecordingState, the Session fields, the lock, the ticks or the calls in
\* flight, whatever the state then is; with error already null the store is
\* left as it was.
C24_TimerOnlyClearsError ==
    [][/\ \A d \in errTimers : d \in errTimers' \/ (ErrorTimerFire /\ now >= d)
       /\ ErrorTimerFire =>
             /\ error' = NoError
             /\ UNCHANGED <<recordingState, audioLevel, uploadSize, recordingStartTime,
                            recordingDuration, transcription, transcriptionHistory,
                            isOperationInProgress, timerVars, calls>>
             /\ error = NoError => UNCHANGED storeVars]_vars

\* an error timer set before the present recording began is due while the
\* controller is recording
C24_Witness ==
    /\ recordingState = "recording"
    /\ \E d \in errTimers : now >= d
    /\ recordingStartTime # Null
    /\ \E d \in errTimers : d - ERROR_CLEAR_MS < recordingStartTime

\* the fields of a history item as the key stores it
StoredFields == {"original", "polished", "finalText", "timestamp"}

\* C25: add persists the audio before the item is visible and writes the key
\* after the prepend.  An add with audio leaves the list alone while its put is
\* outstanding; when it completes, the blob is in the database under the item's
\* timestamp (unless a later clear or add has been issued since) and the item
\* heads the list; every value written under the key is the projection of the
\* in-memory list of that moment, with no audio field in any item.
C25_AddOrder ==
    [][/\ \A audio \in HistAudios, f \in BOOLEAN :
             (AddCall(1, audio, f) /\ audio # Undefined /\ dbPromise[1] # "rejected")
                => hist'[1] = hist[1]
       /\ \A i \in DOMAIN tasks :
             (AddDone(i) /\ ~tasks[i].fails) =>
                /\ hist'[1][1].timestamp = tasks[i].timestamp
                /\ hist'[1][1].audioData = tasks[i].audio
                /\ Len(tasks) = i =>
                      GetAudioData(audioDB, tasks[i].timestamp) = tasks[i].audio
       /\ localStorage' # localStorage =>
             /\ localStorage' = Stringify(hist'[1])
             /\ \A k \in DOMAIN localStorage'.items :
                   DOMAIN localStorage'.items[k] = StoredFields]_vars

\* an add with audio has completed: the item heads the list with its bytes,
\* the blob is stored under its timestamp, the key holds the projection
C25_Witness ==
    /\ hist[1] # <<>>
    /\ hist[1][1].audioData \in Audios
    /\ hist[1][1].timestamp >= StartTime
    /\ GetAudioData(audioDB, hist[1][1].timestamp) = hist[1][1].audioData
    /\ localStorage = Stringify(hist[1])
    /\ tasks = <<>>

\* item was pushed out by the cap: the list is full of newer items
Evicted(item, list) ==
    /\ Len(list) = MAX_HISTORY_ITEMS
    /\ \A k \in DOMAIN list : list[k].timestamp > item.timestamp

\* C26 as stated: when loadHistory or a storage-event reconciliation completes,
\* every item that a local add put in the in-memory list since it began (the
\* item's timestamp is not older than its start) is still in the list and in
\* the key's value, unless the cap evicted it.
C26_Original ==
    [][\A i \in DOMAIN tasks :
          (LoadDone(i) \/ SyncDone(i)) =>
             \A k \in DOMAIN hist[tasks[i].w] :
                LET item == hist[tasks[i].w][k]
                IN  \/ item.timestamp < tasks[i].timestamp
                    \/ /\ \E m \in DOMAIN hist'[tasks[i].w] : hist'[tasks[i].w][m] = item
                       /\ \E m \in DOMAIN localStorage'.items :
                             localStorage'.items[m] = StripAudio(item)
                    \/ Evicted(item, hist'[tasks[i].w])]_vars

\* C27 as stated: mounting does not erase persisted history: the mount effects
\* leave at least as many items under the key as were there, and a load that
\* fails leaves under the key the items it had read at mount.
C27_Original ==
    [][/\ \A w \in Windows, f \in BOOLEAN :
             Mount(w, f) => Len(localStorage'.items) >= Len(localStorage.items)
       /\ \A i \in DOMAIN tasks :
             (LoadDone(i) /\ tasks[i].fails) =>
                Len(localStorage'.items) >= Len(tasks[i].items)]_vars

\* C28 as stated: begin-capture and end-capture alternate strictly.  A step
\* that invokes start_recording finds no begin pending or succeeded and not
\* yet ended; a step that invokes stop_recording finds a begin that succeeded
\* and has not been ended.
C28_Original ==
    [][Len(calls') = Len(calls) + 1 =>
          LET c == calls'[Len(calls')]
          IN  /\ c.pc = "start_recording" => capture = "idle"
              /\ c.pc = "stop_recording" => capture = "capturing"]_vars

\* C29 as stated: once the window's operations have settled, every key in the
\* audio database is the timestamp of an item of the history list, and the
\* database holds at most 20 blobs.
C29_Original ==
    (isInitialized[1] /\ tasks = <<>>) =>
       /\ \A r \in audioDB : \E k \in DOMAIN hist[1] : hist[1][k].timestamp = r.timestamp
       /\ Cardinality(audioDB) <= MAX_HISTORY_ITEMS

\* no notification is queued, no request is outstanding, and every open
\* window's list is the list the key holds
Quiesced ==
    /\ \A w \in Windows : events[w] = <<>>
    /\ tasks = <<>>
    /\ \A w \in Windows : isInitialized[w] => Stringify(hist[w]) = localStorage

\* C30 as stated: with at most one local add or clear and no fault, the
\* exchange of storage events between the windows comes to an end, and from
\* then on every window holds the list that is stored under the key.
C30_Original == <>[]Quiesced

====
